---- MODULE Spec2Model ----
(***************************************************************************)
(* GatewayService of textbee (api/src/gateway/gateway.service.ts): the     *)
(* outbound single and bulk dispatch, the inbound recorder and the         *)
(* detached counter / webhook tasks, as a state machine.                   *)
(*                                                                         *)
(* Every handler is an async function; it is cut at its awaits: one action *)
(* per resolved await, which runs the synchronous code up to the next      *)
(* await.  The stores (devices, batches, messages), the transport and the  *)
(* billing and webhook services are collaborators: a store write or a      *)
(* transport call either resolves or rejects, chosen by the environment.   *)
(***************************************************************************)
EXTENDS Integers, Sequences, FiniteSets, TLC

VARIABLES
  devices,     \* deviceModel: device id -> document
  smsBatches,  \* smsBatchModel: the documents in creation order, _id = position
  smsStore,    \* smsModel: the documents in creation order, _id = position
  fcmLog,      \* the calls made to firebaseAdmin.messaging().sendEach
  tasks,       \* the detached promises (counter updates, webhook deliveries)
  calls        \* the handler invocations: slot -> local variables and position

vars == <<devices, smsBatches, smsStore, fcmLog, tasks, calls>>

----------------------------------------------------------------------------
(* Bounds of the model.                                                    *)

\* longest recipient list of an ordinary (dispatched) message
MaxLen == 2
\* most sub-messages of one bulk request
MaxMsgs == 2

\* the cap of sendBulkSMS on the recipients of one request
MaxBatchRecipients == 50

----------------------------------------------------------------------------
(* JavaScript values.  A value whose type the code tests at run time is a  *)
(* record tagged with its type; the items of a recipient array are plain   *)
(* strings.                                                                *)

U == [t |-> "undefined"]
Null == [t |-> "null"]
S(s) == [t |-> "string", v |-> s]
N(n) == [t |-> "number", v |-> n]
A(a) == [t |-> "array", v |-> a]
D(ms) == [t |-> "date", v |-> ms]

\* ToBoolean: what `!x`, `x || y` and `x ? a : b` test
Truthy(x) ==
  CASE x.t = "undefined" -> FALSE
    [] x.t = "null" -> FALSE
    [] x.t = "string" -> x.v # ""
    [] x.t = "number" -> x.v # 0
    [] x.t = "boolean" -> x.v
    [] OTHER -> TRUE

\* x || y
Or(x, y) == IF Truthy(x) THEN x ELSE y

\* Array.isArray(x)
IsArray(x) == x.t = "array"

\* whether reading x.length throws a TypeError (x is undefined or null)
LengthThrows(x) == x.t \in {"undefined", "null"}

\* x.length, for an x on which the read does not throw
Length(x) ==
  CASE x.t = "array" -> N(Len(x.v))
    [] x.t = "string" -> N(Len(x.v))
    [] OTHER -> U

\* new Date(millis)
DateFromMillis(n) == D(n.v)

----------------------------------------------------------------------------
(* Errors and results.                                                     *)

HttpException(body, status) == [t |-> "HttpException", status |-> status, response |-> body]
BadRequest(msg) == HttpException([success |-> FALSE, error |-> msg], 400)
BadRequestInfo(msg, info) ==
  HttpException([success |-> FALSE, error |-> msg, additionalInfo |-> info], 400)

\* what the collaborators throw
TypeError == [t |-> "TypeError"]
QuotaExceeded == [t |-> "QuotaExceeded"]
PersistError == [t |-> "MongoError"]
FcmError == [t |-> "FirebaseError"]

Throw(e) == [kind |-> "throw", error |-> e]
Return(v) == [kind |-> "return", value |-> v]
Pending == [kind |-> "pending"]

----------------------------------------------------------------------------
(* getRecipientsPreview                                                    *)

\* (mutant) the count of the others leaves out the third entry as well
getRecipientsPreviewMinusThree(recipients) ==
  IF Len(recipients) = 0 THEN Null
  ELSE IF Len(recipients) = 1 THEN S(recipients[1])
  ELSE IF Len(recipients) = 2 THEN S(recipients[1] \o " and " \o recipients[2])
  ELSE IF Len(recipients) = 3
    THEN S(recipients[1] \o ", " \o recipients[2] \o ", and " \o recipients[3])
  ELSE S(recipients[1] \o ", " \o recipients[2] \o ", and "
         \o ToString(Len(recipients) - 3) \o " others")

getRecipientsPreview(recipients) ==
  IF Len(recipients) = 0 THEN Null
  ELSE IF Len(recipients) = 1 THEN S(recipients[1])
  ELSE IF Len(recipients) = 2 THEN S(recipients[1] \o " and " \o recipients[2])
  ELSE IF Len(recipients) = 3
    THEN S(recipients[1] \o ", " \o recipients[2] \o ", and " \o recipients[3])
  ELSE S(recipients[1] \o ", " \o recipients[2] \o ", and "
         \o ToString(Len(recipients) - 2) \o " others")

----------------------------------------------------------------------------
(* The inputs the environment draws from.                                  *)

DeviceIds == {"d1", "d2", "d3"}

RecipList(n) == [i \in 1..n |-> "r" \o ToString(i)]

\* a recipients field: absent, a string instead of a list, or a list
RecipientValues == {U, S("ab")} \cup {A(RecipList(n)) : n \in 0..MaxLen}

SendSMSInputs ==
  [message : {U, S(""), S("hi")},
   smsBody : {U, S("yo")},
   recipients : RecipientValues,
   receivers : {U, A(<<"v1">>)}]

\* the sub-messages of a bulk request: a blank or a real body with every
\* recipients value, and with the lists long enough to bring the request's
\* total to the cap and past it
BigLens == {MaxBatchRecipients - 1, MaxBatchRecipients, MaxBatchRecipients + 1}

SubMessages ==
  [message : {S(""), S("hi")},
   recipients : RecipientValues \cup {A(RecipList(n)) : n \in BigLens}]

SeqsUpTo(set, n) == UNION {[1..k -> set] : k \in 0..n}

SendBulkSMSInputs ==
  [messageTemplate : {S("tpl")},
   messages : {U} \cup {A(ms) : ms \in SeqsUpTo(SubMessages, MaxMsgs)}]

ReceivedSMSInputs ==
  [sender : {U, S("+15551234")},
   message : {U, S(""), S("hi")},
   receivedAt : {U, D(2000)},
   receivedAtInMillis : {U, N(0), N(1000)}]

----------------------------------------------------------------------------
(* State.                                                                  *)

Idle ==
  [op |-> "none", pc |-> "idle", deviceId |-> "", arg |-> U, grant |-> TRUE,
   device |-> Null, message |-> U, recipients |-> U, smsBatch |-> 0,
   i |-> 0, j |-> 0, fcmMessages |-> <<>>, fcmResponses |-> <<>>,
   asked |-> <<>>, result |-> Pending]

\* the stores at the start: an enabled device d1 that has sent and received
\* one message, a disabled device d2 (d3 is no device), and their records
InitDevices ==
  [d \in {"d1", "d2"} |->
     [_id |-> d, user |-> "u-" \o d, enabled |-> (d = "d1"),
      fcmToken |-> "tok-" \o d, model |-> "m", buildId |-> "b-" \o d,
      sentSMSCount |-> (IF d = "d1" THEN 1 ELSE 0),
      receivedSMSCount |-> (IF d = "d1" THEN 1 ELSE 0)]]

InitBatches ==
  <<[_id |-> 1, device |-> "d1", message |-> "old", recipientCount |-> 1,
     recipientPreview |-> S("r9")]>>

InitSMS ==
  <<[_id |-> 1, device |-> "d1", smsBatch |-> 1, message |-> "old",
     type |-> "SENT", recipient |-> "r9", requestedAt |-> "now"],
    [_id |-> 2, device |-> "d1", message |-> "yo", type |-> "RECEIVED",
     sender |-> "+15550000", receivedAt |-> D(500)]>>

Init ==
  /\ devices = InitDevices
  /\ smsBatches = InitBatches
  /\ smsStore = InitSMS
  /\ fcmLog = <<>>
  /\ tasks = <<>>
  /\ calls = [c \in {1} |-> Idle]

\* deviceModel.findById
findById(deviceId) == IF deviceId \in DOMAIN devices THEN devices[deviceId] ELSE Null

\* !device?.enabled
NotEnabled(device) == device = Null \/ ~device.enabled

Finish(c, r) == calls' = [calls EXCEPT ![c].pc = "done", ![c].result = r]

\* firebaseAdmin.messaging().sendEach(fcmMessages) is called: the transport's
\* record of the call, and of what it answers
SendEachCall(c, fcmMessages) ==
  [by |-> c, messages |-> fcmMessages, outcome |-> [kind |-> "pending"]]

\* the call of sendEach that handler c awaits
Awaited(c) ==
  CHOOSE k \in DOMAIN fcmLog : fcmLog[k].by = c /\ fcmLog[k].outcome.kind = "pending"

Rejected == [kind |-> "rejected"]
Resolved(response) == [kind |-> "resolved", response |-> response]

\* (mutant) the counter update counts the request, not its messages
IncTaskOnce(c, deviceId, field, by) ==
  [type |-> "inc", by |-> c, deviceId |-> deviceId, field |-> field, amount |-> 1,
   status |-> "pending"]

\* deviceModel.findByIdAndUpdate(deviceId, {$inc: {field: by}}).exec(), detached
IncTask(c, deviceId, field, by) ==
  [type |-> "inc", by |-> c, deviceId |-> deviceId, field |-> field, amount |-> by,
   status |-> "pending"]

----------------------------------------------------------------------------
(* sendSMS                                                                 *)

\* (mutant) the payload carries the id of the batch where the id of the
\* message belongs
FcmMessageBatchAsId(sms, batchId, message, recipient, token) ==
  [data |-> [smsData |-> [json |->
      [smsId |-> batchId, smsBatchId |-> batchId, message |-> message,
       recipients |-> <<recipient>>, smsBody |-> message,
       receivers |-> <<recipient>>]]],
   token |-> token,
   android |-> [priority |-> "high"]]

\* the transport payload built for one recipient (lines 177-197)
FcmMessage(sms, batchId, message, recipient, token) ==
  [data |-> [smsData |-> [json |->
      [smsId |-> sms, smsBatchId |-> batchId, message |-> message,
       recipients |-> <<recipient>>, smsBody |-> message,
       receivers |-> <<recipient>>]]],
   token |-> token,
   android |-> [priority |-> "high"]]

\* the document of smsModel.create for an outbound message
SentSMS(id, device, batchId, message, recipient) ==
  [_id |-> id, device |-> device._id, smsBatch |-> batchId, message |-> message,
   type |-> "SENT", recipient |-> recipient, requestedAt |-> "now"]

\* what sendEach can resolve to for n payloads (the per-payload responses are
\* not read by the service: only the two counts are kept)
BatchResponses(n) == {[successCount |-> k, failureCount |-> n - k] : k \in 0..n}

\* lines 102-122: findById resolves; the enabled check, the two field
\* fallbacks, recipients.length and the call of canPerformAction
SendSMS_FindDevice(c, deviceId, smsData, grant) ==
  /\ calls[c].pc = "idle"
  /\ LET device == findById(deviceId)
         message == Or(smsData.message, smsData.smsBody)
         recipients == Or(smsData.recipients, smsData.receivers)
         base == [calls[c] EXCEPT !.op = "sendSMS", !.deviceId = deviceId,
                                  !.arg = smsData, !.grant = grant,
                                  !.device = device]
     IN calls' = [calls EXCEPT ![c] =
          IF NotEnabled(device)
            THEN [base EXCEPT !.pc = "done", !.result =
                    Throw(BadRequest("Device does not exist or is not enabled"))]
          ELSE IF LengthThrows(recipients)
            THEN [base EXCEPT !.pc = "done", !.result = Throw(TypeError),
                              !.message = message, !.recipients = recipients]
          ELSE [base EXCEPT !.pc = "quota", !.message = message,
                            !.recipients = recipients,
                            !.asked = <<[owner |-> device.user, action |-> "send_sms",
                                         count |-> Length(recipients)]>>]]
  /\ UNCHANGED <<devices, smsBatches, smsStore, fcmLog, tasks>>

\* lines 118-154: canPerformAction resolves or rejects; then the body and
\* recipient checks and the call of smsBatchModel.create
SendSMS_Quota(c) ==
  /\ calls[c].op = "sendSMS" /\ calls[c].pc = "quota"
  /\ LET me == calls[c] IN
       IF ~me.grant THEN Finish(c, Throw(QuotaExceeded))
       ELSE IF ~Truthy(me.message)
         THEN Finish(c, Throw(BadRequest("Message cannot be blank")))
       ELSE IF ~IsArray(me.recipients) \/ Len(me.recipients.v) = 0
         THEN Finish(c, Throw(BadRequest("Invalid recipients")))
       ELSE calls' = [calls EXCEPT ![c].pc = "batch"]
  /\ UNCHANGED <<devices, smsBatches, smsStore, fcmLog, tasks>>

\* lines 148-169: smsBatchModel.create resolves or rejects; then the first
\* smsModel.create is called
SendSMS_CreateBatch(c) ==
  /\ calls[c].op = "sendSMS" /\ calls[c].pc = "batch"
  /\ LET me == calls[c]
         id == Len(smsBatches) + 1
     IN \E ok \in BOOLEAN :
          IF ok
            THEN /\ smsBatches' = Append(smsBatches,
                      [_id |-> id, device |-> me.device._id, message |-> me.message.v,
                       recipientCount |-> Len(me.recipients.v),
                       recipientPreview |-> getRecipientsPreview(me.recipients.v)])
                 /\ calls' = [calls EXCEPT ![c].pc = "sms", ![c].smsBatch = id,
                                           ![c].i = 1]
            ELSE /\ Finish(c, Throw(BadRequestInfo("Failed to create SMS batch",
                                                   PersistError)))
                 /\ UNCHANGED smsBatches
  /\ UNCHANGED <<devices, smsStore, fcmLog, tasks>>

\* (mutant) a rejected smsModel.create removes the messages the call created
\* before it
SendSMS_CreateSMSRollback(c) ==
  /\ calls[c].op = "sendSMS" /\ calls[c].pc = "sms"
  /\ LET me == calls[c]
         id == Len(smsStore) + 1
         recipient == me.recipients.v[me.i]
         msgs == Append(me.fcmMessages,
                   FcmMessage(id, me.smsBatch, me.message.v, recipient,
                              me.device.fcmToken))
     IN \E ok \in BOOLEAN :
          IF ok
            THEN /\ smsStore' = Append(smsStore,
                      SentSMS(id, me.device, me.smsBatch, me.message.v, recipient))
                 /\ IF me.i < Len(me.recipients.v)
                      THEN /\ calls' = [calls EXCEPT ![c].i = me.i + 1,
                                                     ![c].fcmMessages = msgs]
                           /\ UNCHANGED fcmLog
                      ELSE /\ calls' = [calls EXCEPT ![c].pc = "send",
                                                     ![c].fcmMessages = msgs]
                           /\ fcmLog' = Append(fcmLog, SendEachCall(c, msgs))
            ELSE /\ Finish(c, Throw(PersistError))
                 /\ smsStore' = SelectSeq(smsStore,
                                    LAMBDA sms : ~(sms.type = "SENT" /\ sms.smsBatch = me.smsBatch))
                 /\ UNCHANGED fcmLog
  /\ UNCHANGED <<devices, smsBatches, tasks>>

\* lines 168-202: one smsModel.create resolves or rejects; the payload is
\* built, and either the next create or sendEach is called
SendSMS_CreateSMS(c) ==
  /\ calls[c].op = "sendSMS" /\ calls[c].pc = "sms"
  /\ LET me == calls[c]
         id == Len(smsStore) + 1
         recipient == me.recipients.v[me.i]
         msgs == Append(me.fcmMessages,
                   FcmMessage(id, me.smsBatch, me.message.v, recipient,
                              me.device.fcmToken))
     IN \E ok \in BOOLEAN :
          IF ok
            THEN /\ smsStore' = Append(smsStore,
                      SentSMS(id, me.device, me.smsBatch, me.message.v, recipient))
                 /\ IF me.i < Len(me.recipients.v)
                      THEN /\ calls' = [calls EXCEPT ![c].i = me.i + 1,
                                                     ![c].fcmMessages = msgs]
                           /\ UNCHANGED fcmLog
                      ELSE /\ calls' = [calls EXCEPT ![c].pc = "send",
                                                     ![c].fcmMessages = msgs]
                           /\ fcmLog' = Append(fcmLog, SendEachCall(c, msgs))
            ELSE /\ Finish(c, Throw(PersistError))
                 /\ UNCHANGED <<smsStore, fcmLog>>
  /\ UNCHANGED <<devices, smsBatches, tasks>>

\* lines 201-236: sendEach resolves or rejects
SendSMS_SendEach(c) ==
  /\ calls[c].op = "sendSMS" /\ calls[c].pc = "send"
  /\ LET me == calls[c] IN
       \/ \* sendEach rejects: caught at line 227
          /\ fcmLog' = [fcmLog EXCEPT ![Awaited(c)].outcome = Rejected]
          /\ Finish(c, Throw(BadRequestInfo("Failed to send SMS", FcmError)))
          /\ UNCHANGED tasks
       \/ \E response \in BatchResponses(Len(me.fcmMessages)) :
            /\ fcmLog' = [fcmLog EXCEPT ![Awaited(c)].outcome = Resolved(response)]
            /\ IF response.successCount = 0
                 THEN \* thrown at line 207 inside the try, caught at line 227
                      /\ Finish(c, Throw(BadRequestInfo("Failed to send SMS",
                                     BadRequestInfo("Failed to send SMS", response))))
                      /\ UNCHANGED tasks
                 ELSE /\ tasks' = Append(tasks,
                            IncTask(c, me.deviceId, "sentSMSCount",
                                    response.successCount))
                      /\ Finish(c, Return(response))
  /\ UNCHANGED <<devices, smsBatches, smsStore>>

----------------------------------------------------------------------------
(* sendBulkSMS                                                             *)

\* messages.map((m) => m.recipients).flat(): an array contributes its items,
\* any other value (a string, undefined) is kept as one item
RECURSIVE FlatRecipients(_)
FlatRecipients(messages) ==
  IF Len(messages) = 0 THEN <<>>
  ELSE LET r == Head(messages).recipients
       IN (IF IsArray(r) THEN r.v ELSE IF r.t = "string" THEN <<r.v>> ELSE <<r>>)
            \o FlatRecipients(Tail(messages))

\* whether messages.map((m) => m.recipients.length) throws a TypeError
SomeLengthThrows(messages) ==
  \E k \in 1..Len(messages) : LengthThrows(messages[k].recipients)

\* (mutant) recipientCount leaves out the sub-messages the loop will skip
RECURSIVE SumLengthsDispatched(_)
SumLengthsDispatched(messages) ==
  IF Len(messages) = 0 THEN 0
  ELSE (IF /\ Truthy(Head(messages).message)
           /\ IsArray(Head(messages).recipients)
         THEN Len(Head(messages).recipients.v) ELSE 0)
       + SumLengthsDispatched(Tail(messages))

\* messages.map((m) => m.recipients.length).reduce((a, b) => a + b, 0), for
\* recipients that are arrays or strings
RECURSIVE SumLengths(_)
SumLengths(messages) ==
  IF Len(messages) = 0 THEN 0
  ELSE Length(Head(messages).recipients).v + SumLengths(Tail(messages))

\* (mutant) the batch document counts only the recipients of the
\* sub-messages the loop will dispatch
BulkBatchDispatchedOnly(id, device, body) ==
  [_id |-> id, device |-> device._id,
   message |-> body.messageTemplate.v,
   recipientCount |-> SumLengthsDispatched(body.messages.v),
   recipientPreview |-> getRecipientsPreview(FlatRecipients(body.messages.v))]

\* the document of smsBatchModel.create for a bulk request (lines 284-293)
BulkBatch(id, device, body) ==
  [_id |-> id, device |-> device._id,
   message |-> body.messageTemplate.v,
   recipientCount |-> SumLengths(body.messages.v),
   recipientPreview |-> getRecipientsPreview(FlatRecipients(body.messages.v))]

\* a sub-message the loop does not skip (lines 300-306)
Dispatchable(smsData) ==
  /\ Truthy(smsData.message)
  /\ IsArray(smsData.recipients)
  /\ Len(smsData.recipients.v) > 0

\* the first sub-message from position j on that the loop does not skip, or
\* Len(messages) + 1 when the loop ends
RECURSIVE NextDispatch(_, _)
NextDispatch(messages, j) ==
  IF j > Len(messages) THEN j
  ELSE IF Dispatchable(messages[j]) THEN j
  ELSE NextDispatch(messages, j + 1)

\* fcmResponses.reduce((acc, m) => acc + m.successCount, 0), and failureCount
RECURSIVE SumSuccess(_)
SumSuccess(rs) == IF Len(rs) = 0 THEN 0 ELSE Head(rs).successCount + SumSuccess(Tail(rs))

RECURSIVE SumFailure(_)
SumFailure(rs) == IF Len(rs) = 0 THEN 0 ELSE Head(rs).failureCount + SumFailure(Tail(rs))

\* (mutant) failureCount reduced over successCount
BulkResponseSameField(fcmResponses) ==
  [success |-> SumSuccess(fcmResponses) > 0,
   successCount |-> SumSuccess(fcmResponses),
   failureCount |-> SumSuccess(fcmResponses),
   fcmResponses |-> fcmResponses]

\* lines 364-378
BulkResponse(fcmResponses) ==
  [success |-> SumSuccess(fcmResponses) > 0,
   successCount |-> SumSuccess(fcmResponses),
   failureCount |-> SumFailure(fcmResponses),
   fcmResponses |-> fcmResponses]

\* (mutant) the cap refuses a total equal to it
OverLimitInclusive(n) == n >= MaxBatchRecipients

\* the hard cap of line 272
OverLimit(n) == n > MaxBatchRecipients

\* the loop moves to sub-message j (the first not skipped), or ends: the call
\* returns the aggregate of the responses collected
BulkAdvance(me, j, fcmResponses) ==
  IF j > Len(me.arg.messages.v)
    THEN [me EXCEPT !.pc = "done", !.j = j, !.fcmResponses = fcmResponses,
                    !.result = Return(BulkResponse(fcmResponses))]
    ELSE [me EXCEPT !.pc = "bsms", !.j = j, !.i = 1, !.fcmMessages = <<>>,
                    !.fcmResponses = fcmResponses,
                    !.message = me.arg.messages.v[j].message,
                    !.recipients = me.arg.messages.v[j].recipients]

\* (mutant) a rejected sendEach ends the bulk call, as it does in sendSMS
BulkRejectedAborts(me, next) ==
  [me EXCEPT !.pc = "done",
             !.result = Throw(BadRequestInfo("Failed to send SMS", FcmError))]

\* sendEach rejected for sub-message me.j (lines 358-361): logged, no response
\* kept, no counter update, and the loop goes on with sub-message `next`
BulkRejected(me, next) == BulkAdvance(me, next, me.fcmResponses)

\* lines 239-256: findById resolves; the enabled check, the total recipient
\* count and the call of canPerformAction
SendBulkSMS_FindDevice(c, deviceId, body, grant) ==
  /\ calls[c].pc = "idle"
  /\ LET device == findById(deviceId)
         base == [calls[c] EXCEPT !.op = "sendBulkSMS", !.deviceId = deviceId,
                                  !.arg = body, !.grant = grant, !.device = device]
     IN calls' = [calls EXCEPT ![c] =
          IF NotEnabled(device)
            THEN [base EXCEPT !.pc = "done", !.result =
                    Throw(BadRequest("Device does not exist or is not enabled"))]
          ELSE IF ~IsArray(body.messages)
            THEN \* body.messages.map is not a function / of undefined
                 [base EXCEPT !.pc = "done", !.result = Throw(TypeError)]
          ELSE [base EXCEPT !.pc = "bquota",
                            !.asked = <<[owner |-> device.user,
                                         action |-> "bulk_send_sms",
                                         count |-> N(Len(FlatRecipients(body.messages.v)))]>>]]
  /\ UNCHANGED <<devices, smsBatches, smsStore, fcmLog, tasks>>

\* lines 252-293: canPerformAction resolves or rejects; then the message
\* list check, the cap, and the call of smsBatchModel.create
SendBulkSMS_Quota(c) ==
  /\ calls[c].op = "sendBulkSMS" /\ calls[c].pc = "bquota"
  /\ LET me == calls[c]
         messages == me.arg.messages.v
         total == Len(FlatRecipients(messages))
     IN IF ~me.grant THEN Finish(c, Throw(QuotaExceeded))
        ELSE IF Len(messages) = 0 \/ total = 0
          THEN Finish(c, Throw(BadRequest("Invalid message list")))
        ELSE IF OverLimit(total)
          THEN Finish(c, Throw(BadRequest("Maximum of 50 recipients per batch is allowed")))
        ELSE IF SomeLengthThrows(messages)
          THEN \* m.recipients.length of line 288
               Finish(c, Throw(TypeError))
        ELSE calls' = [calls EXCEPT ![c].pc = "bbatch"]
  /\ UNCHANGED <<devices, smsBatches, smsStore, fcmLog, tasks>>

\* lines 284-311: smsBatchModel.create resolves or rejects (not caught);
\* then the loop starts
SendBulkSMS_CreateBatch(c) ==
  /\ calls[c].op = "sendBulkSMS" /\ calls[c].pc = "bbatch"
  /\ LET me == calls[c]
         messages == me.arg.messages.v
         id == Len(smsBatches) + 1
     IN \E ok \in BOOLEAN :
          IF ok
            THEN /\ smsBatches' = Append(smsBatches, BulkBatch(id, me.device, me.arg))
                 /\ calls' = [calls EXCEPT ![c] =
                      BulkAdvance([me EXCEPT !.smsBatch = id],
                                  NextDispatch(messages, 1), <<>>)]
            ELSE /\ Finish(c, Throw(PersistError))
                 /\ UNCHANGED smsBatches
  /\ UNCHANGED <<devices, smsStore, fcmLog, tasks>>

\* lines 310-344: one smsModel.create resolves or rejects (not caught); the
\* payload is built, and either the next create or sendEach is called
SendBulkSMS_CreateSMS(c) ==
  /\ calls[c].op = "sendBulkSMS" /\ calls[c].pc = "bsms"
  /\ LET me == calls[c]
         id == Len(smsStore) + 1
         recipient == me.recipients.v[me.i]
         msgs == Append(me.fcmMessages,
                   FcmMessage(id, me.smsBatch, me.message.v, recipient,
                              me.device.fcmToken))
     IN \E ok \in BOOLEAN :
          IF ok
            THEN /\ smsStore' = Append(smsStore,
                      SentSMS(id, me.device, me.smsBatch, me.message.v, recipient))
                 /\ IF me.i < Len(me.recipients.v)
                      THEN /\ calls' = [calls EXCEPT ![c].i = me.i + 1,
                                                     ![c].fcmMessages = msgs]
                           /\ UNCHANGED fcmLog
                      ELSE /\ calls' = [calls EXCEPT ![c].pc = "bsend",
                                                     ![c].fcmMessages = msgs]
                           /\ fcmLog' = Append(fcmLog, SendEachCall(c, msgs))
            ELSE /\ Finish(c, Throw(PersistError))
                 /\ UNCHANGED <<smsStore, fcmLog>>
  /\ UNCHANGED <<devices, smsBatches, tasks>>

\* lines 343-378: sendEach resolves (the response is kept and the counter
\* update detached) or rejects (logged); then the next sub-message, or the
\* aggregate is returned
SendBulkSMS_SendEach(c) ==
  /\ calls[c].op = "sendBulkSMS" /\ calls[c].pc = "bsend"
  /\ LET me == calls[c]
         next == NextDispatch(me.arg.messages.v, me.j + 1)
     IN \/ \* sendEach rejects: caught at line 358
           /\ fcmLog' = [fcmLog EXCEPT ![Awaited(c)].outcome = Rejected]
           /\ calls' = [calls EXCEPT ![c] = BulkRejected(me, next)]
           /\ UNCHANGED tasks
        \/ \E response \in BatchResponses(Len(me.fcmMessages)) :
             /\ fcmLog' = [fcmLog EXCEPT ![Awaited(c)].outcome = Resolved(response)]
             /\ tasks' = Append(tasks,
                  IncTask(c, me.deviceId, "sentSMSCount", response.successCount))
             /\ calls' = [calls EXCEPT ![c] =
                  BulkAdvance(me, next, Append(me.fcmResponses, response))]
  /\ UNCHANGED <<devices, smsBatches, smsStore>>

----------------------------------------------------------------------------
(* receiveSMS                                                              *)

\* (mutant) receiveSMS checks the device as the sends do
NoDeviceOrDisabled(device) == device = Null \/ ~device.enabled

\* (mutant) the timestamps are not checked
InvalidReceivedNoTimestamp(dto) == ~Truthy(dto.sender) \/ ~Truthy(dto.message)

\* !device (line 384)
NoDevice(device) == device = Null

\* lines 400-404
InvalidReceived(dto) ==
  \/ (~Truthy(dto.receivedAt) /\ ~Truthy(dto.receivedAtInMillis))
  \/ ~Truthy(dto.sender)
  \/ ~Truthy(dto.message)

\* (mutant) the absolute timestamp is preferred
ReceivedAtAbsoluteFirst(dto) ==
  IF Truthy(dto.receivedAt)
    THEN dto.receivedAt
    ELSE DateFromMillis(dto.receivedAtInMillis)

\* lines 415-417
ReceivedAt(dto) ==
  IF Truthy(dto.receivedAtInMillis)
    THEN DateFromMillis(dto.receivedAtInMillis)
    ELSE dto.receivedAt

\* the document of smsModel.create for an inbound message (lines 419-425)
ReceivedSMS(id, device, dto) ==
  [_id |-> id, device |-> device._id, message |-> dto.message.v,
   type |-> "RECEIVED", sender |-> dto.sender.v, receivedAt |-> ReceivedAt(dto)]

\* webhookService.deliverNotification({sms, user, event}), detached
WebhookTask(c, sms, user) ==
  [type |-> "webhook", by |-> c, sms |-> sms, user |-> user,
   event |-> "MESSAGE_RECEIVED", status |-> "pending"]

\* lines 381-398: findById resolves; the existence check and the call of
\* canPerformAction
ReceiveSMS_FindDevice(c, deviceId, dto, grant) ==
  /\ calls[c].pc = "idle"
  /\ LET device == findById(deviceId)
         base == [calls[c] EXCEPT !.op = "receiveSMS", !.deviceId = deviceId,
                                  !.arg = dto, !.grant = grant, !.device = device]
     IN calls' = [calls EXCEPT ![c] =
          IF NoDevice(device)
            THEN [base EXCEPT !.pc = "done", !.result =
                    Throw(BadRequest("Device does not exist"))]
          ELSE [base EXCEPT !.pc = "rquota",
                            !.asked = <<[owner |-> device.user,
                                         action |-> "receive_sms",
                                         count |-> N(1)]>>]]
  /\ UNCHANGED <<devices, smsBatches, smsStore, fcmLog, tasks>>

\* lines 394-425: canPerformAction resolves or rejects; then the payload
\* check and the call of smsModel.create
ReceiveSMS_Quota(c) ==
  /\ calls[c].op = "receiveSMS" /\ calls[c].pc = "rquota"
  /\ LET me == calls[c] IN
       IF ~me.grant THEN Finish(c, Throw(QuotaExceeded))
       ELSE IF InvalidReceived(me.arg)
         THEN Finish(c, Throw(BadRequest("Invalid received SMS data")))
       ELSE calls' = [calls EXCEPT ![c].pc = "rsms"]
  /\ UNCHANGED <<devices, smsBatches, smsStore, fcmLog, tasks>>

\* (mutant) the counter update is detached whether smsModel.create resolves
\* or rejects
ReceiveSMS_CreateSMSCountsFirst(c) ==
  /\ calls[c].op = "receiveSMS" /\ calls[c].pc = "rsms"
  /\ LET me == calls[c]
         sms == ReceivedSMS(Len(smsStore) + 1, me.device, me.arg)
     IN \E ok \in BOOLEAN :
          IF ok
            THEN /\ smsStore' = Append(smsStore, sms)
                 /\ tasks' = tasks \o
                      <<IncTask(c, me.deviceId, "receivedSMSCount", 1),
                        WebhookTask(c, sms, me.device.user)>>
                 /\ Finish(c, Return(sms))
            ELSE /\ Finish(c, Throw(PersistError))
                 /\ tasks' = Append(tasks, IncTask(c, me.deviceId, "receivedSMSCount", 1))
                 /\ UNCHANGED smsStore
  /\ UNCHANGED <<devices, smsBatches, fcmLog>>

\* lines 419-447: smsModel.create resolves or rejects (not caught); the
\* counter update and the webhook delivery are detached, the document returned
ReceiveSMS_CreateSMS(c) ==
  /\ calls[c].op = "receiveSMS" /\ calls[c].pc = "rsms"
  /\ LET me == calls[c]
         sms == ReceivedSMS(Len(smsStore) + 1, me.device, me.arg)
     IN \E ok \in BOOLEAN :
          IF ok
            THEN /\ smsStore' = Append(smsStore, sms)
                 /\ tasks' = tasks \o
                      <<IncTask(c, me.deviceId, "receivedSMSCount", 1),
                        WebhookTask(c, sms, me.device.user)>>
                 /\ Finish(c, Return(sms))
            ELSE /\ Finish(c, Throw(PersistError))
                 /\ UNCHANGED <<smsStore, tasks>>
  /\ UNCHANGED <<devices, smsBatches, fcmLog>>

----------------------------------------------------------------------------
(* The detached tasks.                                                     *)

\* (mutant) the counter is written as the value the handler read with its
\* device plus the amount, in place of the store's $inc
RunTaskReadModifyWrite(k) ==
  /\ tasks[k].status = "pending"
  /\ tasks' = [tasks EXCEPT ![k].status = "done"]
  /\ IF tasks[k].type = "inc" /\ tasks[k].deviceId \in DOMAIN devices
       THEN devices' = [devices EXCEPT ![tasks[k].deviceId][tasks[k].field] =
                          calls[tasks[k].by].device[tasks[k].field] + tasks[k].amount]
       ELSE UNCHANGED devices
  /\ UNCHANGED <<smsBatches, smsStore, fcmLog, calls>>

\* a detached promise resolves: the $inc is applied (to a device that exists)
RunTask(k) ==
  /\ tasks[k].status = "pending"
  /\ tasks' = [tasks EXCEPT ![k].status = "done"]
  /\ IF tasks[k].type = "inc" /\ tasks[k].deviceId \in DOMAIN devices
       THEN devices' = [devices EXCEPT ![tasks[k].deviceId][tasks[k].field] =
                          @ + tasks[k].amount]
       ELSE UNCHANGED devices
  /\ UNCHANGED <<smsBatches, smsStore, fcmLog, calls>>

\* (mutant) the rejection of a detached promise reaches the handler that
\* detached it
FailTaskSurfaces(k) ==
  /\ tasks[k].status = "pending"
  /\ tasks' = [tasks EXCEPT ![k].status = "failed"]
  /\ calls' = [calls EXCEPT ![tasks[k].by].pc = "done",
                            ![tasks[k].by].result = Throw(PersistError)]
  /\ UNCHANGED <<devices, smsBatches, smsStore, fcmLog>>

\* a detached promise rejects: the .catch logs the error and drops it
FailTask(k) ==
  /\ tasks[k].status = "pending"
  /\ tasks' = [tasks EXCEPT ![k].status = "failed"]
  /\ UNCHANGED <<devices, smsBatches, smsStore, fcmLog, calls>>

----------------------------------------------------------------------------
(* registerDevice, updateDevice, deleteDevice                              *)

B(b) == [t |-> "boolean", v |-> b]

\* the empty object that deleteDevice returns
EmptyObject == [t |-> "object"]

\* new HttpException({ error: 'Device not found' }, HttpStatus.NOT_FOUND)
DeviceNotFound == HttpException([error |-> "Device not found"], 404)

Users == {"u-d2", "u-x"}

\* a RegisterDeviceInputDTO; a field that is U is a key the object lacks
RegisterInputs ==
  [model : {"m"}, buildId : {"b-d2", "b-new"},
   enabled : {U, B(FALSE)}, fcmToken : {S("tok-new")}]

\* what deviceModel.findOne({ user, model, buildId }) can resolve to: a
\* device that matches, or null when none does
findOne(user, model, buildId) ==
  LET matches == {d \in DOMAIN devices :
                    /\ devices[d].user = user
                    /\ devices[d].model = model
                    /\ devices[d].buildId = buildId}
  IN IF matches = {} THEN {Null} ELSE {devices[d] : d \in matches}

\* the fields a created device has when the input does not give them
DeviceDefaults ==
  [enabled |-> TRUE, fcmToken |-> "", sentSMSCount |-> 0, receivedSMSCount |-> 0]

\* the id the store gives the next created device
NewDeviceId == "n" \o ToString(Cardinality(DOMAIN devices) + 1)

\* the document of deviceModel.create({ ...input, user })
CreatedDevice(id, input, user) ==
  [_id |-> id, user |-> user, model |-> input.model, buildId |-> input.buildId,
   enabled |-> IF input.enabled.t = "boolean" THEN input.enabled.v
               ELSE DeviceDefaults.enabled,
   fcmToken |-> IF input.fcmToken.t = "string" THEN input.fcmToken.v
                ELSE DeviceDefaults.fcmToken,
   sentSMSCount |-> DeviceDefaults.sentSMSCount,
   receivedSMSCount |-> DeviceDefaults.receivedSMSCount]

\* the document after { $set: input }
SetFields(device, input) ==
  [device EXCEPT !.model = input.model, !.buildId = input.buildId,
                 !.enabled = IF input.enabled.t = "boolean" THEN input.enabled.v ELSE @,
                 !.fcmToken = IF input.fcmToken.t = "string" THEN input.fcmToken.v ELSE @]

\* lines 40-53: findOne resolves; updateDevice is called with enabled: true
\* on a device found (its findById is pending), deviceModel.create otherwise
RegisterDevice_FindOne(c, input, user) ==
  /\ calls[c].pc = "idle"
  /\ \E device \in findOne(user, input.model, input.buildId) :
       calls' = [calls EXCEPT ![c] =
         IF device = Null
           THEN [@ EXCEPT !.op = "registerDevice", !.pc = "create",
                          !.arg = [input |-> input, user |-> user]]
           ELSE [@ EXCEPT !.op = "registerDevice", !.pc = "ufind",
                          !.deviceId = device._id, !.device = device,
                          !.arg = [input |-> [input EXCEPT !.enabled = B(TRUE)],
                                   user |-> user]]]
  /\ UNCHANGED <<devices, smsBatches, smsStore, fcmLog, tasks>>

\* line 52: deviceModel.create resolves or rejects
RegisterDevice_Create(c) ==
  /\ calls[c].op = "registerDevice" /\ calls[c].pc = "create"
  /\ LET me == calls[c]
         device == CreatedDevice(NewDeviceId, me.arg.input, me.arg.user)
     IN \E ok \in BOOLEAN :
          IF ok
            THEN /\ devices' = [d \in DOMAIN devices \cup {device._id} |->
                                  IF d = device._id THEN device ELSE devices[d]]
                 /\ Finish(c, Return(device))
            ELSE /\ Finish(c, Throw(PersistError))
                 /\ UNCHANGED devices
  /\ UNCHANGED <<smsBatches, smsStore, fcmLog, tasks>>

\* lines 68-77: what follows when findById(deviceId) resolves for a handler
\* whose record is me
AfterFindById(c, me) ==
  calls' = [calls EXCEPT ![c] =
    IF findById(me.deviceId) = Null
      THEN [me EXCEPT !.pc = "done", !.result = Throw(DeviceNotFound)]
      ELSE [me EXCEPT !.pc = "uset", !.device = findById(me.deviceId)]]

\* lines 64-77: updateDevice is called and its findById resolves
UpdateDevice_FindById(c, deviceId, input) ==
  /\ calls[c].pc = "idle"
  /\ AfterFindById(c, [calls[c] EXCEPT !.op = "updateDevice", !.deviceId = deviceId,
                                       !.arg = [input |-> input, user |-> ""]])
  /\ UNCHANGED <<devices, smsBatches, smsStore, fcmLog, tasks>>

\* lines 47-50, 68-77: the findById of the updateDevice that registerDevice
\* called resolves
RegisterDevice_UpdateDevice(c) ==
  /\ calls[c].op = "registerDevice" /\ calls[c].pc = "ufind"
  /\ AfterFindById(c, calls[c])
  /\ UNCHANGED <<devices, smsBatches, smsStore, fcmLog, tasks>>

\* lines 79-83: findByIdAndUpdate resolves with the new document, or rejects
UpdateDevice_Set(c) ==
  /\ calls[c].op \in {"registerDevice", "updateDevice"} /\ calls[c].pc = "uset"
  /\ LET me == calls[c] IN
       \E ok \in BOOLEAN :
         IF ok
           THEN /\ devices' = [devices EXCEPT ![me.deviceId] = SetFields(@, me.arg.input)]
                /\ Finish(c, Return(SetFields(devices[me.deviceId], me.arg.input)))
           ELSE /\ Finish(c, Throw(PersistError))
                /\ UNCHANGED devices
  /\ UNCHANGED <<smsBatches, smsStore, fcmLog, tasks>>

\* (mutant) the delete that the service has commented out
DeleteDeviceRemoves(c, deviceId) ==
  /\ calls[c].pc = "idle"
  /\ LET device == findById(deviceId) IN
       /\ calls' = [calls EXCEPT ![c] =
            [@ EXCEPT !.op = "deleteDevice", !.deviceId = deviceId, !.device = device,
                      !.pc = "done",
                      !.result = IF device = Null THEN Throw(DeviceNotFound)
                                 ELSE Return(device)]]
       /\ devices' = [d \in DOMAIN devices \ {deviceId} |-> devices[d]]
  /\ UNCHANGED <<smsBatches, smsStore, fcmLog, tasks>>

\* lines 86-100: findById resolves; NOT_FOUND for no device, {} for a device
DeleteDevice(c, deviceId) ==
  /\ calls[c].pc = "idle"
  /\ LET device == findById(deviceId) IN
       calls' = [calls EXCEPT ![c] =
         [@ EXCEPT !.op = "deleteDevice", !.deviceId = deviceId, !.device = device,
                   !.pc = "done",
                   !.result = IF device = Null THEN Throw(DeviceNotFound)
                              ELSE Return(EmptyObject)]]
  /\ UNCHANGED <<devices, smsBatches, smsStore, fcmLog, tasks>>

----------------------------------------------------------------------------

Next ==
  \/ \E c \in DOMAIN calls :
       /\ calls[c].pc = "idle"
       /\ \E d \in DeviceIds, smsData \in SendSMSInputs, g \in BOOLEAN :
            SendSMS_FindDevice(c, d, smsData, g)
  \/ \E c \in DOMAIN calls : SendSMS_Quota(c)
  \/ \E c \in DOMAIN calls : SendSMS_CreateBatch(c)
  \/ \E c \in DOMAIN calls : SendSMS_CreateSMS(c)
  \/ \E c \in DOMAIN calls : SendSMS_SendEach(c)
  \/ \E c \in DOMAIN calls :
       /\ calls[c].pc = "idle"
       /\ \E d \in DeviceIds, body \in SendBulkSMSInputs, g \in BOOLEAN :
            SendBulkSMS_FindDevice(c, d, body, g)
  \/ \E c \in DOMAIN calls : SendBulkSMS_Quota(c)
  \/ \E c \in DOMAIN calls : SendBulkSMS_CreateBatch(c)
  \/ \E c \in DOMAIN calls : SendBulkSMS_CreateSMS(c)
  \/ \E c \in DOMAIN calls : SendBulkSMS_SendEach(c)
  \/ \E c \in DOMAIN calls :
       /\ calls[c].pc = "idle"
       /\ \E d \in DeviceIds, dto \in ReceivedSMSInputs, g \in BOOLEAN :
            ReceiveSMS_FindDevice(c, d, dto, g)
  \/ \E c \in DOMAIN calls : ReceiveSMS_Quota(c)
  \/ \E c \in DOMAIN calls : ReceiveSMS_CreateSMS(c)
  \/ \E k \in DOMAIN tasks : RunTask(k)
  \/ \E k \in DOMAIN tasks : FailTask(k)

Spec == Init /\ [][Next]_vars

----------------------------------------------------------------------------
(* The device operations, two requests at a time.                          *)

InitDevice ==
  /\ devices = InitDevices
  /\ smsBatches = InitBatches
  /\ smsStore = InitSMS
  /\ fcmLog = <<>>
  /\ tasks = <<>>
  /\ calls = [c \in {1, 2} |-> Idle]

NextDevice ==
  \/ \E c \in DOMAIN calls :
       /\ calls[c].pc = "idle"
       /\ \E input \in RegisterInputs, user \in Users :
            RegisterDevice_FindOne(c, input, user)
  \/ \E c \in DOMAIN calls : RegisterDevice_Create(c)
  \/ \E c \in DOMAIN calls : RegisterDevice_UpdateDevice(c)
  \/ \E c \in DOMAIN calls :
       /\ calls[c].pc = "idle"
       /\ \E d \in DeviceIds, input \in RegisterInputs :
            UpdateDevice_FindById(c, d, input)
  \/ \E c \in DOMAIN calls : UpdateDevice_Set(c)
  \/ \E c \in DOMAIN calls :
       /\ calls[c].pc = "idle"
       /\ \E d \in DeviceIds : DeleteDevice(c, d)

DeviceSpec == InitDevice /\ [][NextDevice]_vars

----------------------------------------------------------------------------
(* Two requests on the enabled device d1 at a time, with payloads that     *)
(* pass validation, and their detached tasks.                              *)

ConcSendSMSInputs ==
  {[message |-> S("hi"), smsBody |-> U, recipients |-> A(RecipList(n)),
    receivers |-> U] : n \in 1..2}

ConcSendBulkSMSInputs ==
  {[messageTemplate |-> S("tpl"),
    messages |-> A(<<[message |-> S("hi"), recipients |-> A(<<"r1">>)],
                     [message |-> S("yo"), recipients |-> A(<<"r2">>)]>>)]}

ConcReceivedSMSInputs ==
  {[sender |-> S("+15551234"), message |-> S("hi"), receivedAt |-> U,
    receivedAtInMillis |-> N(1000)]}

InitConc ==
  /\ devices = InitDevices
  /\ smsBatches = InitBatches
  /\ smsStore = InitSMS
  /\ fcmLog = <<>>
  /\ tasks = <<>>
  /\ calls = [c \in {1, 2} |-> Idle]

NextConc ==
  \/ \E c \in DOMAIN calls :
       /\ calls[c].pc = "idle"
       /\ \E smsData \in ConcSendSMSInputs, g \in BOOLEAN :
            SendSMS_FindDevice(c, "d1", smsData, g)
  \/ \E c \in DOMAIN calls : SendSMS_Quota(c)
  \/ \E c \in DOMAIN calls : SendSMS_CreateBatch(c)
  \/ \E c \in DOMAIN calls : SendSMS_CreateSMS(c)
  \/ \E c \in DOMAIN calls : SendSMS_SendEach(c)
  \/ \E c \in DOMAIN calls :
       /\ calls[c].pc = "idle"
       /\ \E body \in ConcSendBulkSMSInputs, g \in BOOLEAN :
            SendBulkSMS_FindDevice(c, "d1", body, g)
  \/ \E c \in DOMAIN calls : SendBulkSMS_Quota(c)
  \/ \E c \in DOMAIN calls : SendBulkSMS_CreateBatch(c)
  \/ \E c \in DOMAIN calls : SendBulkSMS_CreateSMS(c)
  \/ \E c \in DOMAIN calls : SendBulkSMS_SendEach(c)
  \/ \E c \in DOMAIN calls :
       /\ calls[c].pc = "idle"
       /\ \E dto \in ConcReceivedSMSInputs, g \in BOOLEAN :
            ReceiveSMS_FindDevice(c, "d1", dto, g)
  \/ \E c \in DOMAIN calls : ReceiveSMS_Quota(c)
  \/ \E c \in DOMAIN calls : ReceiveSMS_CreateSMS(c)
  \/ \E k \in DOMAIN tasks : RunTask(k)
  \/ \E k \in DOMAIN tasks : FailTask(k)

ConcSpec == InitConc /\ [][NextConc]_vars

----------------------------------------------------------------------------
(* Vocabulary of the properties.                                           *)

Slots == DOMAIN calls
Done(c) == calls[c].pc = "done"
Returned(c) == Done(c) /\ calls[c].result.kind = "return"
Threw(c) == Done(c) /\ calls[c].result.kind = "throw"

\* the error of the specification's taxonomy that a result stands for
ErrorName(r) ==
  IF r.kind # "throw" THEN "none"
  ELSE IF r.error.t # "HttpException" THEN r.error.t
  ELSE LET msg == r.error.response.error IN
    CASE msg \in {"Device does not exist or is not enabled", "Device does not exist"}
           -> "DeviceUnavailable"
      [] msg = "Message cannot be blank" -> "EmptyMessage"
      [] msg = "Invalid recipients" -> "InvalidRecipients"
      [] msg = "Invalid message list" -> "InvalidMessageList"
      [] msg = "Maximum of 50 recipients per batch is allowed" -> "RecipientLimitExceeded"
      [] msg = "Invalid received SMS data" -> "InvalidInboundMessage"
      [] msg = "Failed to create SMS batch" -> "BatchPersistError"
      [] msg = "Failed to send SMS" -> "SendFailed"
      [] msg = "Device not found" -> "NotFound"
      [] OTHER -> "other"

ValidationErrors ==
  {"DeviceUnavailable", "QuotaExceeded", "EmptyMessage", "InvalidRecipients",
   "InvalidMessageList", "RecipientLimitExceeded", "InvalidInboundMessage"}

\* the handler found its device: an enabled one for the two sends, any
\* existing one for receiveSMS
DeviceResolved(c) ==
  /\ calls[c].deviceId \in DOMAIN InitDevices
  /\ calls[c].op \in {"sendSMS", "sendBulkSMS"} => InitDevices[calls[c].deviceId].enabled

\* nothing was persisted, sent, or detached, and no counter moved (every
\* behaviour holds one request, so the stores are those of the start)
Untouched ==
  /\ devices = InitDevices
  /\ smsBatches = InitBatches
  /\ smsStore = InitSMS
  /\ fcmLog = <<>>
  /\ tasks = <<>>

TasksBy(c) == {k \in DOMAIN tasks : tasks[k].by = c}
SendsBy(c) == {k \in DOMAIN fcmLog : fcmLog[k].by = c}
SentOfBatch(b) ==
  {k \in DOMAIN smsStore : smsStore[k].type = "SENT" /\ smsStore[k].smsBatch = b}

----------------------------------------------------------------------------
(* C1: in sendSMS, sendBulkSMS and receiveSMS on a resolved device, the     *)
(* quota check comes before payload validation and before every side       *)
(* effect: whatever the payload, malformed ones included, a refusal of the *)
(* quota guard ends the call with QuotaExceeded and leaves the stores, the *)
(* counters and the transport untouched.                                   *)
C1_QuotaRefusalWins ==
  \A c \in Slots :
    (Done(c) /\ DeviceResolved(c) /\ ~calls[c].grant)
      => /\ ErrorName(calls[c].result) = "QuotaExceeded"
         /\ Len(calls[c].asked) = 1
         /\ Untouched

----------------------------------------------------------------------------
(* C2: a sendSMS with N >= 1 recipients whose transport call reports       *)
(* successCount = N and failureCount = 0 has created exactly one batch     *)
(* with recipientCount = N and exactly N SENT messages of that batch,      *)
(* returns the transport's response, and has detached exactly one          *)
(* increment of the device's sentSMSCount by N: the counter is the initial *)
(* one until that task runs and the initial one plus N once it has.        *)
C2_AllSent ==
  \A c \in Slots :
    LET me == calls[c]
        n == Len(me.recipients.v)
        d == me.deviceId
    IN (me.op = "sendSMS" /\ Returned(c)
        /\ me.result.value.successCount = n /\ me.result.value.failureCount = 0)
      => /\ n >= 1
         /\ Len(smsBatches) = Len(InitBatches) + 1
         /\ smsBatches[me.smsBatch].recipientCount = n
         /\ smsBatches[me.smsBatch].device = d
         /\ Len(smsStore) = Len(InitSMS) + n
         /\ Cardinality(SentOfBatch(me.smsBatch)) = n
         /\ \A k \in SendsBy(c) : fcmLog[k].outcome = Resolved(me.result.value)
         /\ Cardinality(SendsBy(c)) = 1
         /\ Cardinality(TasksBy(c)) = 1
         /\ \A k \in TasksBy(c) :
              /\ tasks[k].type = "inc" /\ tasks[k].deviceId = d
              /\ tasks[k].field = "sentSMSCount" /\ tasks[k].amount = n
              /\ devices[d].sentSMSCount =
                   InitDevices[d].sentSMSCount + (IF tasks[k].status = "done" THEN n ELSE 0)

C2_Witness ==
  \E c \in Slots :
    /\ calls[c].op = "sendSMS" /\ Returned(c)
    /\ calls[c].result.value = [successCount |-> 2, failureCount |-> 0]
    /\ \E k \in TasksBy(c) : tasks[k].status = "done"

----------------------------------------------------------------------------
(* C3: a sendSMS whose transport call returns normally with successCount   *)
(* = 0 fails with DeliveryFailed, an error whose payload carries the       *)
(* transport's response itself (not a wrapped thrown cause, as a           *)
(* TransportError does), and no sentSMSCount increment is detached.        *)
C3_DeliveryFailedCarriesResponse ==
  \A c \in Slots : \A k \in SendsBy(c) :
    (calls[c].op = "sendSMS" /\ Done(c)
     /\ fcmLog[k].outcome.kind = "resolved"
     /\ fcmLog[k].outcome.response.successCount = 0)
      => /\ Threw(c)
         /\ ErrorName(calls[c].result) = "SendFailed"
         /\ calls[c].result.error.response.additionalInfo = fcmLog[k].outcome.response
         /\ TasksBy(c) = {}

----------------------------------------------------------------------------
(* Bulk requests, as the properties read them.                             *)

\* a sub-message with a non-blank body and a non-empty recipient list
WellFormed(m) ==
  /\ m.message.t = "string" /\ m.message.v # ""
  /\ m.recipients.t = "array" /\ m.recipients.v # <<>>

WellFormedOf(c) == SelectSeq(calls[c].arg.messages.v, WellFormed)

\* the calls of sendEach made by handler c, in order
SendsOf(c) == SelectSeq(fcmLog, LAMBDA e : e.by = c)
ResolvedOf(c) == SelectSeq(fcmLog, LAMBDA e : e.by = c /\ e.outcome.kind = "resolved")

\* the recipients a call of sendEach addresses, in payload order
Addressed(e) ==
  [i \in 1..Len(e.messages) |-> e.messages[i].data.smsData.json.recipients[1]]

RECURSIVE TotalRecipients(_)
TotalRecipients(ms) ==
  IF ms = <<>> THEN 0 ELSE Len(Head(ms).recipients.v) + TotalRecipients(Tail(ms))

RECURSIVE TotalSuccess(_)
TotalSuccess(es) ==
  IF es = <<>> THEN 0 ELSE Head(es).outcome.response.successCount + TotalSuccess(Tail(es))

RECURSIVE TotalFailure(_)
TotalFailure(es) ==
  IF es = <<>> THEN 0 ELSE Head(es).outcome.response.failureCount + TotalFailure(Tail(es))

\* the request passed the checks of the whole request: device, quota,
\* message list, cap
BulkAccepted(c) ==
  /\ calls[c].op = "sendBulkSMS" /\ DeviceResolved(c) /\ calls[c].grant
  /\ IsArray(calls[c].arg.messages)
  /\ Len(calls[c].arg.messages.v) > 0
  /\ Len(FlatRecipients(calls[c].arg.messages.v)) \in 1..MaxBatchRecipients

\* every well-formed sub-message of c, and no other, was handed to the
\* transport, in order, after its messages were created
DispatchedInOrder(c) ==
  /\ Len(SendsOf(c)) = Len(WellFormedOf(c))
  /\ \A k \in 1..Len(SendsOf(c)) : Addressed(SendsOf(c)[k]) = WellFormedOf(c)[k].recipients.v
  /\ Cardinality(SentOfBatch(calls[c].smsBatch)) = TotalRecipients(WellFormedOf(c))

----------------------------------------------------------------------------
(* C4: in sendBulkSMS a sub-message with a blank body or with an empty or  *)
(* invalid (missing, not a list) recipient list is skipped silently: it    *)
(* raises no error, creates no message and causes no transport call, and   *)
(* the well-formed sub-messages of the request are still dispatched in     *)
(* order (unless a store write fails).                                     *)
C4_MalformedSkipped ==
  \A c \in Slots :
    (Done(c) /\ BulkAccepted(c) /\ ErrorName(calls[c].result) # "MongoError")
      => /\ Returned(c)
         /\ DispatchedInOrder(c)
         /\ Len(calls[c].result.value.fcmResponses) = Len(ResolvedOf(c))

----------------------------------------------------------------------------
(* C5: when the transport call of a sub-message of sendBulkSMS throws, the *)
(* call does not fail: the later well-formed sub-messages still get their  *)
(* messages created and their own transport call, the failed sub-message   *)
(* contributes no response and no counter increment, and the aggregate is  *)
(* returned.                                                               *)
C5_TransportThrowIsolated ==
  \A c \in Slots :
    (calls[c].op = "sendBulkSMS" /\ Done(c)
     /\ \E k \in SendsBy(c) : fcmLog[k].outcome.kind = "rejected")
      => /\ ErrorName(calls[c].result) \in {"none", "MongoError"}
         /\ Returned(c) =>
              /\ DispatchedInOrder(c)
              /\ calls[c].result.value.fcmResponses =
                   [k \in 1..Len(ResolvedOf(c)) |-> ResolvedOf(c)[k].outcome.response]
              /\ Cardinality(TasksBy(c)) = Len(ResolvedOf(c))
              /\ calls[c].result.value.successCount = TotalSuccess(ResolvedOf(c))

\* the first of two sub-messages threw, the second was still sent
C5_Witness ==
  \E c \in Slots :
    /\ calls[c].op = "sendBulkSMS" /\ Returned(c)
    /\ Len(SendsOf(c)) = 2
    /\ SendsOf(c)[1].outcome.kind = "rejected"
    /\ SendsOf(c)[2].outcome.kind = "resolved"
    /\ SendsOf(c)[2].outcome.response.successCount > 0

----------------------------------------------------------------------------
(* C6: the result of a sendBulkSMS has successCount and failureCount equal *)
(* to the sums of those counts over the transport responses of the         *)
(* sub-messages dispatched, and success = (successCount > 0); once the     *)
(* batch exists the call raises no error of its own, so when every         *)
(* sub-message is rejected or throws it returns success = FALSE.           *)
C6_BulkAggregate ==
  \A c \in Slots :
    LET me == calls[c] IN
    /\ (me.op = "sendBulkSMS" /\ Returned(c))
         => /\ me.result.value.successCount = TotalSuccess(ResolvedOf(c))
            /\ me.result.value.failureCount = TotalFailure(ResolvedOf(c))
            /\ me.result.value.success = (TotalSuccess(ResolvedOf(c)) > 0)
    /\ (me.op = "sendBulkSMS" /\ Done(c) /\ me.smsBatch # 0
        /\ ErrorName(me.result) # "MongoError")
         => /\ Returned(c)
            /\ (\A k \in SendsBy(c) :
                  \/ fcmLog[k].outcome.kind = "rejected"
                  \/ fcmLog[k].outcome.response.successCount = 0)
                 => me.result.value.success = FALSE

\* one sub-message threw, the other was rejected for both its recipients
C6_Witness ==
  \E c \in Slots :
    /\ calls[c].op = "sendBulkSMS" /\ Returned(c)
    /\ Len(SendsOf(c)) = 2
    /\ SendsOf(c)[1].outcome.kind = "rejected"
    /\ SendsOf(c)[2].outcome = Resolved([successCount |-> 0, failureCount |-> 2])
    /\ calls[c].result.value.success = FALSE

----------------------------------------------------------------------------
(* C7: a sendBulkSMS (on an enabled device, every sub-message carrying a   *)
(* recipient list) fails with RecipientLimitExceeded exactly when the      *)
(* quota was granted and the recipients of all its sub-messages number     *)
(* more than 50; the request then leaves no record and made no transport   *)
(* call.                                                                   *)
C7_RecipientCap ==
  \A c \in Slots :
    LET me == calls[c] IN
    (me.op = "sendBulkSMS" /\ Done(c) /\ DeviceResolved(c) /\ IsArray(me.arg.messages)
     /\ \A k \in 1..Len(me.arg.messages.v) : me.arg.messages.v[k].recipients.t = "array")
      => /\ ErrorName(me.result) = "RecipientLimitExceeded"
              <=> (me.grant /\ TotalRecipients(me.arg.messages.v) > 50)
         /\ ErrorName(me.result) = "RecipientLimitExceeded"
              => (Untouched /\ Len(me.asked) = 1)

C7_Witness ==
  \E c \in Slots :
    /\ calls[c].op = "sendBulkSMS" /\ Done(c) /\ IsArray(calls[c].arg.messages)
    /\ \A k \in 1..Len(calls[c].arg.messages.v) :
         calls[c].arg.messages.v[k].recipients.t = "array"
    /\ TotalRecipients(calls[c].arg.messages.v) = 51
    /\ ErrorName(calls[c].result) = "RecipientLimitExceeded"

----------------------------------------------------------------------------
(* C8, as claimed: the receivedAt stored by receiveSMS is the absolute     *)
(* timestamp whenever the input has one, and is derived from the           *)
(* epoch-millis value only when the absolute timestamp is absent.          *)
C8_AbsoluteWins ==
  \A c \in Slots :
    LET dto == calls[c].arg IN
    (calls[c].op = "receiveSMS" /\ Returned(c))
      => calls[c].result.value.receivedAt =
           (IF dto.receivedAt.t = "date" THEN dto.receivedAt ELSE D(dto.receivedAtInMillis.v))

(* C8, amended: the receivedAt stored by receiveSMS is derived from the    *)
(* epoch-millis value whenever the input has a non-zero one (also when an  *)
(* absolute timestamp is present too), and is the absolute timestamp only  *)
(* when the epoch-millis value is absent or zero.                          *)
C8_MillisWins ==
  \A c \in Slots :
    LET dto == calls[c].arg
        millis == dto.receivedAtInMillis
        hasMillis == millis.t = "number" /\ millis.v # 0
    IN (calls[c].op = "receiveSMS" /\ Returned(c))
      => /\ calls[c].result.value.receivedAt =
              (IF hasMillis THEN D(millis.v) ELSE dto.receivedAt)
         /\ calls[c].result.value.receivedAt.t = "date"
         /\ smsStore[calls[c].result.value._id] = calls[c].result.value

\* both timestamps given, and they differ
C8_Witness ==
  \E c \in Slots :
    /\ calls[c].op = "receiveSMS" /\ Returned(c)
    /\ calls[c].arg.receivedAt = D(2000)
    /\ calls[c].arg.receivedAtInMillis = N(1000)
    /\ smsStore[Len(smsStore)].receivedAt = D(1000)

----------------------------------------------------------------------------
(* C9: receiveSMS fails with DeviceUnavailable only when the device does   *)
(* not exist; for an existing device, enabled or not, with the quota       *)
(* granted and a sender, a body and a timestamp given, it persists exactly *)
(* one RECEIVED message without batch reference (unless the store write    *)
(* fails), detaches exactly one receivedSMSCount increment of 1 and one    *)
(* MESSAGE_RECEIVED webhook delivery carrying that message and the         *)
(* device's owner, and returns the message.                                *)
C9_InboundRecorded ==
  \A c \in Slots :
    LET me == calls[c]
        dto == me.arg
        sms == me.result.value
    IN (me.op = "receiveSMS" /\ Done(c))
      => /\ ErrorName(me.result) = "DeviceUnavailable"
              <=> me.deviceId \notin DOMAIN InitDevices
         /\ (/\ me.deviceId \in DOMAIN InitDevices /\ me.grant
             /\ Truthy(dto.sender) /\ Truthy(dto.message)
             /\ (Truthy(dto.receivedAt) \/ Truthy(dto.receivedAtInMillis)))
              => \/ ErrorName(me.result) = "MongoError" /\ Untouched
                 \/ /\ Returned(c)
                    /\ smsStore = Append(InitSMS, sms)
                    /\ sms.type = "RECEIVED" /\ sms.device = me.deviceId
                    /\ sms.sender = dto.sender.v /\ sms.message = dto.message.v
                    /\ "smsBatch" \notin DOMAIN sms
                    /\ smsBatches = InitBatches /\ fcmLog = <<>>
                    /\ Len(tasks) = 2
                    /\ tasks[1].type = "inc" /\ tasks[1].deviceId = me.deviceId
                    /\ tasks[1].field = "receivedSMSCount" /\ tasks[1].amount = 1
                    /\ tasks[2].type = "webhook" /\ tasks[2].sms = sms
                    /\ tasks[2].user = InitDevices[me.deviceId].user
                    /\ tasks[2].event = "MESSAGE_RECEIVED"

\* an inbound message recorded for the disabled device
C9_Witness ==
  \E c \in Slots :
    /\ calls[c].op = "receiveSMS" /\ Returned(c)
    /\ calls[c].deviceId = "d2" /\ ~InitDevices["d2"].enabled
    /\ Len(tasks) = 2 /\ smsStore[Len(smsStore)].type = "RECEIVED"

----------------------------------------------------------------------------
(* C10: a sendSMS, sendBulkSMS or receiveSMS that fails with a validation  *)
(* or quota error leaves the batch store, the message store and the        *)
(* device counters as they were and makes no transport or webhook call;    *)
(* and receiveSMS (device found, quota granted) fails with                 *)
(* InvalidInboundMessage when neither timestamp is given, or the sender    *)
(* or the body is missing.                                                 *)
C10_ValidationFrame ==
  \A c \in Slots :
    LET me == calls[c]
        dto == me.arg
    IN /\ (Done(c) /\ ErrorName(me.result) \in ValidationErrors) => Untouched
       /\ (/\ me.op = "receiveSMS" /\ Done(c)
           /\ me.deviceId \in DOMAIN InitDevices /\ me.grant
           /\ \/ (dto.receivedAt = U /\ dto.receivedAtInMillis = U)
              \/ dto.sender = U
              \/ dto.message = U)
            => ErrorName(me.result) = "InvalidInboundMessage"

\* an inbound message with a sender and a body but no timestamp is refused
C10_Witness ==
  \E c \in Slots :
    /\ calls[c].op = "receiveSMS" /\ Done(c)
    /\ calls[c].arg.receivedAt = U /\ calls[c].arg.receivedAtInMillis = U
    /\ calls[c].arg.sender # U /\ calls[c].arg.message = S("hi")
    /\ ErrorName(calls[c].result) = "InvalidInboundMessage"

----------------------------------------------------------------------------
(* C11: the failure of a detached counter update or webhook delivery does  *)
(* not change the result of the handler that detached it nor abort it, is  *)
(* not retried, and leaves the persisted messages in place: the step of    *)
(* the failure changes nothing but the task itself (the counter is not     *)
(* incremented), a failed task stays failed, and the result of a finished  *)
(* handler never changes.                                                  *)
C11_TaskFailureSwallowed ==
  [][/\ \A k \in DOMAIN tasks :
          /\ (tasks[k].status = "pending" /\ tasks'[k].status = "failed")
               => /\ calls' = calls
                  /\ devices' = devices
                  /\ smsStore' = smsStore /\ smsBatches' = smsBatches
                  /\ fcmLog' = fcmLog
                  /\ Len(tasks') = Len(tasks)
          /\ tasks[k].status = "failed" => tasks'[k] = tasks[k]
     /\ \A c \in Slots : Done(c) => calls'[c] = calls[c]]_vars

\* a counter update failed after its handler returned: the messages are
\* there, the counter is the initial one
C11_Witness ==
  \E k \in DOMAIN tasks :
    /\ tasks[k].type = "inc" /\ tasks[k].status = "failed"
    /\ Returned(tasks[k].by)
    /\ Len(smsStore) > Len(InitSMS)
    /\ devices = InitDevices

----------------------------------------------------------------------------
\* the recipient list a handler computed the preview of its batch from
PreviewedList(c) ==
  IF calls[c].op = "sendSMS" THEN calls[c].recipients.v
  ELSE FlatRecipients(calls[c].arg.messages.v)

(* C14: getRecipientsPreview gives null for the empty list, the item for   *)
(* one, "A and B" for two, "A, B, and C" for three and "A, B, and N        *)
(* others" with N = n - 2 for more, from the first entries in input order: *)
(* on the lists of the five lengths 0, 1, 2, 3, 5, and on the list of      *)
(* every batch a handler created.                                          *)
C14_PreviewByLength ==
  /\ getRecipientsPreview(<<>>) = Null
  /\ getRecipientsPreview(<<"A">>) = S("A")
  /\ getRecipientsPreview(<<"A", "B">>) = S("A and B")
  /\ getRecipientsPreview(<<"A", "B", "C">>) = S("A, B, and C")
  /\ getRecipientsPreview(<<"A", "B", "C", "D", "E">>) = S("A, B, and 3 others")
  /\ \A c \in Slots :
       (calls[c].op \in {"sendSMS", "sendBulkSMS"} /\ calls[c].smsBatch # 0) =>
         LET r == PreviewedList(c)
             n == Len(r)
             p == smsBatches[calls[c].smsBatch].recipientPreview
         IN /\ n > 0
            /\ n = 1 => p = S(r[1])
            /\ n = 2 => p = S(r[1] \o " and " \o r[2])
            /\ n = 3 => p = S(r[1] \o ", " \o r[2] \o ", and " \o r[3])
            /\ n > 3 => p = S(r[1] \o ", " \o r[2] \o ", and "
                              \o ToString(n - 2) \o " others")

\* a batch of fifty recipients was created: its preview counts 48 others
C14_Witness ==
  \E c \in Slots :
    /\ calls[c].op = "sendBulkSMS" /\ calls[c].smsBatch # 0
    /\ Len(PreviewedList(c)) = MaxBatchRecipients
    /\ smsBatches[calls[c].smsBatch].recipientPreview = S("r1, r2, and 48 others")

----------------------------------------------------------------------------
(* C15: sendSMS on an enabled device with quota granted and a non-blank    *)
(* body fails with InvalidRecipients, nothing persisted and no transport   *)
(* call, whenever the resolved recipient list is missing, not a list, or   *)
(* empty.                                                                  *)
C15_InvalidRecipients ==
  \A c \in Slots :
    (/\ Done(c) /\ calls[c].op = "sendSMS" /\ DeviceResolved(c) /\ calls[c].grant
     /\ Truthy(Or(calls[c].arg.message, calls[c].arg.smsBody))
     /\ LET r == Or(calls[c].arg.recipients, calls[c].arg.receivers)
        IN IF IsArray(r) THEN Len(r.v) = 0 ELSE TRUE)
    => /\ ErrorName(calls[c].result) = "InvalidRecipients"
       /\ Untouched

----------------------------------------------------------------------------
\* the sequence now starts with the sequence before: nothing was removed
\* or modified
Extends(now, before) ==
  /\ Len(now) >= Len(before)
  /\ SubSeq(now, 1, Len(before)) = before

(* C16: no step deletes or modifies a batch or a message, and when sendSMS *)
(* fails after its batch was created (a later smsModel.create rejects,     *)
(* sendEach throws, or sendEach reports no success) the batch and every    *)
(* message created before the failure are still persisted: messages exist  *)
(* for a request whose response is an error.                               *)
C16_NoRollback ==
  /\ [][Extends(smsBatches', smsBatches) /\ Extends(smsStore', smsStore)]_vars
  /\ [](\A c \in Slots :
          (calls[c].op = "sendSMS" /\ Threw(c) /\ calls[c].smsBatch # 0) =>
            LET me == calls[c] IN
              /\ me.smsBatch \in DOMAIN smsBatches
              /\ smsBatches[me.smsBatch]._id = me.smsBatch
              /\ smsBatches[me.smsBatch].recipientCount = Len(me.recipients.v)
              /\ ErrorName(me.result) \in {"MongoError", "SendFailed"}
              /\ ErrorName(me.result) = "MongoError" =>
                   Cardinality(SentOfBatch(me.smsBatch)) = me.i - 1
              /\ ErrorName(me.result) = "SendFailed" =>
                   Cardinality(SentOfBatch(me.smsBatch)) = Len(me.recipients.v))

\* the second smsModel.create was rejected: the call failed, the batch and
\* the first message are persisted
C16_Witness ==
  \E c \in Slots :
    /\ calls[c].op = "sendSMS" /\ Threw(c) /\ calls[c].smsBatch # 0
    /\ ErrorName(calls[c].result) = "MongoError"
    /\ Cardinality(SentOfBatch(calls[c].smsBatch)) = 1

----------------------------------------------------------------------------
\* sendSMS passed the device, quota, body and recipient checks
Validated(c) ==
  /\ calls[c].op = "sendSMS" /\ DeviceResolved(c) /\ calls[c].grant
  /\ calls[c].pc # "quota"
  /\ Truthy(calls[c].message)
  /\ IsArray(calls[c].recipients) /\ Len(calls[c].recipients.v) > 0

\* every payload handler c handed to the transport: one per recipient in
\* input order, to the device's token, with the ids of the persisted batch
\* and of the persisted message of that recipient
PayloadsMatch(c) ==
  LET me == calls[c] IN
    \A k \in SendsBy(c) :
      /\ Len(fcmLog[k].messages) = Len(me.recipients.v)
      /\ me.smsBatch \in DOMAIN smsBatches
      /\ \A i \in 1..Len(fcmLog[k].messages) :
           LET m == fcmLog[k].messages[i]
               json == m.data.smsData.json
           IN /\ m.token = me.device.fcmToken
              /\ json.recipients = <<me.recipients.v[i]>>
              /\ json.message = me.message.v
              /\ json.smsBatchId = me.smsBatch
              /\ json.smsId \in DOMAIN smsStore
              /\ smsStore[json.smsId] =
                   SentSMS(json.smsId, me.device, me.smsBatch, me.message.v,
                           me.recipients.v[i])

(* C17 as stated: a validated sendSMS calls the transport exactly once,    *)
(* with one payload per recipient that names the persisted batch and       *)
(* message, unless the creation of the batch failed.                       *)
C17_ExactlyOnce ==
  \A c \in Slots :
    (Validated(c) /\ Done(c)) =>
      /\ PayloadsMatch(c)
      /\ IF ErrorName(calls[c].result) = "BatchPersistError"
           THEN SendsBy(c) = {}
           ELSE Cardinality(SendsBy(c)) = 1

(* C17: a validated sendSMS calls the transport at most once, and exactly  *)
(* once when its batch and every one of its messages were created; the     *)
(* call carries one payload per recipient in input order, addressed to     *)
(* the device's token, with the id of the batch and of the message created *)
(* for that recipient, both persisted when the call is made; no call of    *)
(* the transport is made when the creation of the batch or of a message    *)
(* fails.                                                                  *)
C17_OncePersistedFirst ==
  \A c \in Slots :
    Validated(c) =>
      /\ PayloadsMatch(c)
      /\ Cardinality(SendsBy(c)) <= 1
      /\ calls[c].pc \in {"batch", "sms"} => SendsBy(c) = {}
      /\ calls[c].pc = "send" => Cardinality(SendsBy(c)) = 1
      /\ Done(c) =>
           IF ErrorName(calls[c].result) \in {"BatchPersistError", "MongoError"}
             THEN SendsBy(c) = {}
             ELSE Cardinality(SendsBy(c)) = 1

\* the transport was called with two payloads and has not answered yet
C17_Witness ==
  \E c \in Slots :
    /\ Validated(c) /\ calls[c].pc = "send"
    /\ \E k \in SendsBy(c) : Len(fcmLog[k].messages) = 2

----------------------------------------------------------------------------
\* what the sub-messages the loop skips contribute to recipientCount: the
\* length of their recipients value (of the list, or of the string)
RECURSIVE SkippedRecipients(_)
SkippedRecipients(ms) ==
  IF ms = <<>> THEN 0
  ELSE (IF WellFormed(Head(ms)) THEN 0 ELSE Len(Head(ms).recipients.v))
       + SkippedRecipients(Tail(ms))

UnitsOf(c) == Cardinality(SentOfBatch(calls[c].smsBatch))

(* C20: the messages that reference a batch never outnumber the batch's    *)
(* recipientCount; they equal it once sendSMS has created all of them;     *)
(* once sendBulkSMS has finished its loop they equal recipientCount minus  *)
(* the recipients of the skipped sub-messages, which recipientCount and    *)
(* the count handed to the quota guard include.                            *)
C20_UnitsWithinRecipientCount ==
  /\ \A b \in DOMAIN smsBatches :
       Cardinality(SentOfBatch(smsBatches[b]._id)) <= smsBatches[b].recipientCount
  /\ \A c \in Slots :
       /\ (/\ calls[c].op = "sendSMS" /\ calls[c].smsBatch # 0
           /\ \/ calls[c].pc = "send"
              \/ Done(c) /\ ErrorName(calls[c].result) \in {"none", "SendFailed"})
            => UnitsOf(c) = smsBatches[calls[c].smsBatch].recipientCount
       /\ (calls[c].op = "sendBulkSMS" /\ Returned(c))
            => /\ UnitsOf(c) = smsBatches[calls[c].smsBatch].recipientCount
                                 - SkippedRecipients(calls[c].arg.messages.v)
               /\ UnitsOf(c) = TotalRecipients(WellFormedOf(c))
               /\ UnitsOf(c) <= calls[c].asked[1].count.v

\* a bulk request returned after it skipped a blank sub-message that has
\* recipients: fewer messages than recipientCount reference its batch
C20_Witness ==
  \E c \in Slots :
    /\ calls[c].op = "sendBulkSMS" /\ Returned(c)
    /\ UnitsOf(c) > 0
    /\ UnitsOf(c) < smsBatches[calls[c].smsBatch].recipientCount
    /\ \E k \in DOMAIN calls[c].arg.messages.v :
         LET m == calls[c].arg.messages.v[k]
         IN m.message = S("") /\ IsArray(m.recipients) /\ Len(m.recipients.v) > 0

----------------------------------------------------------------------------
SameTuple(a, b) ==
  /\ devices[a].user = devices[b].user
  /\ devices[a].model = devices[b].model
  /\ devices[a].buildId = devices[b].buildId

(* C12: after any registerDevice calls, those whose lookup and create      *)
(* interleave included, the store holds at most one device for each        *)
(* (owner, model, buildId); registering an existing tuple updates that     *)
(* device and enables it, and creates nothing.                             *)
C12_OnePerTuple ==
  /\ \A a, b \in DOMAIN devices : SameTuple(a, b) => a = b
  /\ \A c \in Slots :
       (calls[c].op = "registerDevice" /\ Returned(c) /\ calls[c].deviceId # "") =>
         /\ calls[c].result.value._id = calls[c].deviceId
         /\ calls[c].result.value.enabled

----------------------------------------------------------------------------
(* C13 as stated: deleteDevice succeeds with an empty acknowledgement for  *)
(* every deviceId.                                                         *)
C13_AlwaysSucceeds ==
  \A c \in Slots :
    (calls[c].op = "deleteDevice" /\ Done(c)) =>
      calls[c].result = Return(EmptyObject)

(* C13: deleteDevice succeeds with an empty acknowledgement for the id of  *)
(* every device of the store and fails with 'Device not found' for any     *)
(* other id; it never removes or modifies a device or any other record;    *)
(* repeated for the same id it gives the same result and the same store.   *)
C13_DeleteIsNoOp ==
  /\ [][\A c \in Slots :
          (calls[c].pc = "idle" /\ calls'[c].op = "deleteDevice") =>
            /\ devices' = devices
            /\ UNCHANGED <<smsBatches, smsStore, fcmLog, tasks>>
            /\ calls'[c].result =
                 IF calls'[c].deviceId \in DOMAIN devices
                   THEN Return(EmptyObject) ELSE Throw(DeviceNotFound)]_vars
  /\ [](\A c, d \in Slots :
          (/\ calls[c].op = "deleteDevice" /\ Done(c)
           /\ calls[d].op = "deleteDevice" /\ Done(d)
           /\ calls[c].deviceId = calls[d].deviceId)
          => calls[c].result = calls[d].result)

\* the disabled device d2 was deleted twice: both calls returned {}, and
\* the store is the one of the start
C13_Witness ==
  /\ \A c \in Slots :
       /\ calls[c].op = "deleteDevice" /\ calls[c].deviceId = "d2"
       /\ calls[c].result = Return(EmptyObject)
  /\ devices = InitDevices

----------------------------------------------------------------------------
\* the successCount of every response the transport gave for device d
SuccessOn(d) ==
  TotalSuccess(SelectSeq(fcmLog,
    LAMBDA e : e.outcome.kind = "resolved" /\ calls[e.by].deviceId = d))

\* the messages persisted since the start, by direction, for device d
NewUnits(d, type) ==
  {k \in DOMAIN smsStore :
     k > Len(InitSMS) /\ smsStore[k].type = type /\ smsStore[k].device = d}

IncTasks == {k \in DOMAIN tasks : tasks[k].type = "inc"}

(* C18: for concurrently running sendSMS, sendBulkSMS and receiveSMS calls *)
(* on one device, in every interleaving of their steps and of the detached *)
(* tasks: whenever every counter update detached so far has completed      *)
(* without failure, sentSMSCount is its initial value plus the sum of      *)
(* successCount over the responses of the transport, and receivedSMSCount  *)
(* its initial value plus the number of inbound messages persisted.        *)
C18_CountersExact ==
  (\A k \in IncTasks : tasks[k].status = "done") =>
    \A d \in DOMAIN devices :
      /\ devices[d].sentSMSCount = InitDevices[d].sentSMSCount + SuccessOn(d)
      /\ devices[d].receivedSMSCount =
           InitDevices[d].receivedSMSCount + Cardinality(NewUnits(d, "RECEIVED"))

\* a sendSMS ran between the two dispatches of a sendBulkSMS, every message
\* was delivered, and the three counter updates completed
C18_Witness ==
  /\ Returned(1) /\ calls[1].op = "sendSMS"
  /\ Returned(2) /\ calls[2].op = "sendBulkSMS"
  /\ Len(fcmLog) = 3 /\ fcmLog[1].by = 2 /\ fcmLog[2].by = 1 /\ fcmLog[3].by = 2
  /\ Cardinality(IncTasks) = 3
  /\ \A k \in IncTasks : tasks[k].status = "done"
  /\ devices["d1"].sentSMSCount = InitDevices["d1"].sentSMSCount + 4

----------------------------------------------------------------------------
(* C19: in every state and for every device, sentSMSCount has grown by at  *)
(* most the number of outbound messages persisted for the device and       *)
(* receivedSMSCount by at most the number of inbound ones (the transport   *)
(* never reports more successes than it was handed payloads): a counter    *)
(* moves only after the messages it counts were persisted.                 *)
C19_CountersBoundedByUnits ==
  \A d \in DOMAIN devices :
    /\ devices[d].sentSMSCount - InitDevices[d].sentSMSCount
         <= Cardinality(NewUnits(d, "SENT"))
    /\ devices[d].receivedSMSCount - InitDevices[d].receivedSMSCount
         <= Cardinality(NewUnits(d, "RECEIVED"))

\* a sendSMS to two recipients and a receiveSMS ran together, and both
\* counters have caught up with the messages persisted
C19_Witness ==
  /\ {calls[c].op : c \in Slots} = {"sendSMS", "receiveSMS"}
  /\ Cardinality(NewUnits("d1", "SENT")) = 2
  /\ Cardinality(NewUnits("d1", "RECEIVED")) = 1
  /\ devices["d1"].sentSMSCount = InitDevices["d1"].sentSMSCount + 2
  /\ devices["d1"].receivedSMSCount = InitDevices["d1"].receivedSMSCount + 1

====
